---- MODULE Spec2Model ----
(***************************************************************************)
(* Slacktable: a webhook endpoint that turns emoji reactions on chat       *)
(* messages into records of a tabular store.                               *)
(*                                                                         *)
(* The module models app/main.py (signature verification and the           *)
(* /slack/events endpoint), app/slack/handlers.py (the reaction handlers   *)
(* and the record builder), app/slack/client.py (message resolution and    *)
(* the user / channel lookups) and app/airtable/client.py (the record      *)
(* store client).                                                          *)
(*                                                                         *)
(* Conventions.  A Python None, and a key missing from a JSON object read  *)
(* with .get(), is the string NoneStr.  A Python exception raised by an    *)
(* operation is an outcome of the operator that models it, named after     *)
(* the exception class.  Time is counted in half seconds (clock2), so that *)
(* the float returned by time.time() can lie strictly between two integer  *)
(* timestamps.                                                             *)
(***************************************************************************)
EXTENDS Integers, Sequences, FiniteSets, TLC

VARIABLES
    clock2,     \* time.time() at the moment of verification, in half seconds
    pageFrom,   \* which end of a time range the platform pages from
    chan,       \* the channel: message timestamp -> its parent (0 absent, itself top level)
    req,        \* the webhook request being served
    pc,         \* position of the request in slack_events / handle_reaction_added
    calls,      \* outbound calls issued for the request so far, in order
    result,     \* the answer given to the webhook sender
    local,      \* local variables of handle_reaction_added carried between its steps
    stages,     \* the stages the request has gone through, in order
    table,      \* the module-level dict EMOJI_DESTINATION_MAP as it is in memory
    arg,        \* the arguments of a function called on its own
    ret         \* what that call returned

vars == <<clock2, pageFrom, chan, table, req, pc, calls, result, local, stages, arg, ret>>

-----------------------------------------------------------------------------
(* Bounds of the model *)

\* largest message timestamp of the channel
MaxTs == 5

\* largest message timestamp of the channel while requests are dispatched,
\* and largest timestamp an event names
MaxEventTs == 3

\* how many seconds on either side of the replay window's edge are tried
SkewSteps == 1

-----------------------------------------------------------------------------
(* Values *)

NoneStr == "<None>"

Abs(x) == IF x < 0 THEN -x ELSE x

\* Python truthiness of an optional string: None and "" are falsy
Truthy(s) == s # NoneStr /\ s # ""

\* dict.get(key, default)
Get(d, k, default) == IF k \in DOMAIN d THEN d[k] ELSE default

\* 60 * 5 seconds
ReplayWindow == 60 * 5

\* an instant later than the replay window, so that stale timestamps stay positive
Now == 4 * ReplayWindow

\* settings.slack_signing_secret, and a secret somebody else holds
SigningSecret == "configured-secret"
OtherSecret == "other-secret"
Secrets == {SigningSecret, OtherSecret}

-----------------------------------------------------------------------------
(* Signature verification: app/main.py *)

\* int(timestamp): the header text is a decimal literal ("1200", or "+1200"
\* which int() accepts as well) or it is not ("abc")
IntLiteralForms == {"digits", "plus"}
IsIntLiteral(ts) == ts.form \in IntLiteralForms
IntOf(ts) == ts.val

\* request_body.decode('utf-8')
IsUtf8(body) == body.kind # "nonutf8"

\* f"v0:{timestamp}:{body}": the header text itself goes into the base string
SigBaseString(ts, body) == <<"v0", ts, body>>

\* hmac.new(key, msg, sha256).hexdigest(): a keyed one-way function, injective
\* on the values tried here
HmacSha256Hex(key, msg) == <<"hmac-sha256", key, msg>>

\* a signature header text: a prefix followed by hex digits
SignatureText(prefix, key, ts, body) ==
    [prefix |-> prefix, hex |-> HmacSha256Hex(key, SigBaseString(ts, body))]

ExpectedSignature(ts, body) == SignatureText("v0=", SigningSecret, ts, body)

\* hmac.compare_digest(a, b) on two ASCII strings
CompareDigest(a, b) == a = b

\* abs(time.time() - int(timestamp)) > 60 * 5, in half seconds
TooOld(ts, now2) == Abs(now2 - 2 * IntOf(ts)) > 2 * ReplayWindow

TooOldOffByOne(ts, now2) == Abs(now2 - 2 * IntOf(ts)) >= 2 * ReplayWindow

verify_any_secret(body, ts, sig, now2) ==
    IF ~IsIntLiteral(ts) THEN "ValueError"
    ELSE IF TooOld(ts, now2) THEN "False"
    ELSE IF ~IsUtf8(body) THEN "UnicodeDecodeError"
    ELSE IF \E k \in Secrets : CompareDigest(SignatureText("v0=", k, ts, body), sig)
         THEN "True" ELSE "False"

verify_off_by_one(body, ts, sig, now2) ==
    IF ~IsIntLiteral(ts) THEN "ValueError"
    ELSE IF TooOldOffByOne(ts, now2) THEN "False"
    ELSE IF ~IsUtf8(body) THEN "UnicodeDecodeError"
    ELSE IF CompareDigest(ExpectedSignature(ts, body), sig) THEN "True" ELSE "False"

\* verify_slack_signature(request_body, timestamp, signature): "True", "False",
\* or the exception that int() or decode() raises
verify_slack_signature(body, ts, sig, now2) ==
    IF ~IsIntLiteral(ts) THEN "ValueError"
    ELSE IF TooOld(ts, now2) THEN "False"
    ELSE IF ~IsUtf8(body) THEN "UnicodeDecodeError"
    ELSE IF CompareDigest(ExpectedSignature(ts, body), sig) THEN "True" ELSE "False"

-----------------------------------------------------------------------------
(* Inputs of verification *)

\* X-Slack-Request-Timestamp header texts
TsHeader(form, val) == [form |-> form, val |-> val]
TsMissing == TsHeader("missing", 0)
TsMalformed == TsHeader("alpha", 0)

\* offsets from the current second around both edges of the replay window
Skews ==
    {0} \cup { s * (ReplayWindow + k) : s \in {-1, 1}, k \in (-SkewSteps)..SkewSteps }

VerifyTsHeaders ==
    { TsHeader(f, Now + d) : f \in IntLiteralForms, d \in Skews } \cup {TsMalformed}

\* request bodies that verification alone tells apart
NoEvent == [type |-> NoneStr, reaction |-> NoneStr, user |-> NoneStr,
            channel |-> NoneStr, ts |-> 0]
PlainBody(kind) == [kind |-> kind, event |-> NoEvent, challenge |-> NoneStr]
VerifyBodies == { PlainBody("badjson"), PlainBody("url_verification"), PlainBody("nonutf8") }

SigMissing == [prefix |-> NoneStr, hex |-> <<>>]

\* signatures a sender can put in X-Slack-Signature for a request (ts, body):
\* made with either secret, over this or another timestamp and body, with the
\* right or a wrong version prefix
SignaturesFor(ts, body) ==
    { SignatureText(p, k, t, b) :
        p \in {"v0=", "v1="}, k \in Secrets,
        t \in {ts, TsHeader("digits", Now)},
        b \in {body, PlainBody("url_verification")} }

SignedKey(sig) == sig.hex[2]
SignedBody(sig) == sig.hex[3][3]

\* only the platform holds the configured secret, and it signs UTF-8 JSON
\* bodies only
Signable(sig) ==
    (sig # SigMissing /\ SignedKey(sig) = SigningSecret) => IsUtf8(SignedBody(sig))

VerifySignatures ==
    UNION { SignaturesFor(t, b) : t \in VerifyTsHeaders, b \in VerifyBodies }

VerifyArgs ==
    { a \in [body : VerifyBodies, ts : VerifyTsHeaders, sig : VerifySignatures,
             now2 : {2 * Now, 2 * Now + 1}] :
        a.sig \in SignaturesFor(a.ts, a.body) /\ Signable(a.sig) }

-----------------------------------------------------------------------------
(* The chat platform as app/slack/client.py sees it *)

Ts == 1..MaxTs

KnownChannel == "C1"

\* a channel: chan[t] = 0 when no message has timestamp t, t when the message
\* is in the top-level timeline, and the parent's timestamp when it is a
\* thread reply; a parent is a top-level message older than its replies
ValidChannel(c) ==
    \A t \in Ts : c[t] \in {0, t} \/ (c[t] < t /\ c[c[t]] = c[t])

Channels == { c \in [Ts -> 0..MaxTs] : ValidChannel(c) }

\* the channels whose messages lie within the timestamps events name
DispatchChannels == { c \in Channels : \A t \in Ts : t > MaxEventTs => c[t] = 0 }

TopLevel(c) == { t \in Ts : c[t] = t }
RepliesOf(c, p) == { t \in Ts : c[t] = p /\ t # p }

\* the outcomes of one call of the platform SDK: a response, a SlackApiError,
\* or any other exception (a timeout, a connection error)
Outcomes == {"ok", "SlackApiError", "Exception"}

\* message contents the platform may hold
Texts == {"", "site is down"}

\* a file of a message: mimetype as <<type, subtype>>; url_private and name
\* are NoneStr for a missing key
NoMimetype == <<"", "">>
File(mimetype, url_private, name) ==
    [mimetype |-> mimetype, url_private |-> url_private, name |-> name]
ImagePng == File(<<"image", "png">>, "https://files/a.png", "a.png")


\* five image files of one message, in the order the platform lists them
ImageUrls ==
    <<"https://files/1.png", "https://files/2.png", "https://files/3.png",
      "https://files/4.png", "https://files/5.png">>
ImageNames == <<"1.png", "2.png", "3.png", "4.png", "5.png">>
FiveImages == [i \in 1..Len(ImageUrls) |-> File(<<"image", "png">>, ImageUrls[i], ImageNames[i])]

FileLists == {<<>>, <<ImagePng>>, FiveImages}
Contents == [text : Texts, files : FileLists]
PlainContent == [text |-> "site is down", files |-> <<>>]

NoMessage ==
    [ts |-> 0, user |-> NoneStr, text |-> "", files |-> <<>>, reply_count |-> 0,
     thread_ts |-> 0]

\* the JSON object of the message at t
Message(c, t, content) ==
    [ts |-> t, user |-> "U-author", text |-> content.text, files |-> content.files,
     reply_count |-> Cardinality(RepliesOf(c, t)),
     thread_ts |-> IF c[t] = t /\ RepliesOf(c, t) = {} THEN 0 ELSE c[t]]

SetMax(S) == CHOOSE m \in S : \A x \in S : x <= m

RECURSIVE NewestFirst(_)
NewestFirst(S) ==
    IF S = {} THEN <<>>
    ELSE LET m == SetMax(S) IN <<m>> \o NewestFirst(S \ {m})

RECURSIVE OldestFirst(_)
OldestFirst(S) ==
    IF S = {} THEN <<>>
    ELSE LET m == SetMax(S) IN OldestFirst(S \ {m}) \o <<m>>

\* conversations.history(channel, oldest, inclusive, limit): the top-level
\* messages of the range, newest first, at most limit of them.  oldest = 0
\* stands for no oldest.  When the range holds more than limit messages the
\* platform keeps those nearest one end of it: from is that end.
conversations_history(c, oldest, inclusive, limit, from, content) ==
    LET range == { t \in TopLevel(c) :
                     oldest = 0 \/ t > oldest \/ (inclusive /\ t = oldest) }
        all == NewestFirst(range)
        n == Len(all)
        page == IF n <= limit THEN all
                ELSE IF oldest # 0 /\ from = "oldest" THEN SubSeq(all, n - limit + 1, n)
                ELSE SubSeq(all, 1, limit)
    IN [i \in 1..Len(page) |-> Message(c, page[i], content)]

\* conversations.replies(channel, ts, inclusive): the parent, then its replies
\* in reply order
conversations_replies(c, parent, content) ==
    LET thread == <<parent>> \o OldestFirst(RepliesOf(c, parent))
    IN [i \in 1..Len(thread) |-> Message(c, thread[i], content)]

Call(api, a, outcome) == [api |-> api, arg |-> a, outcome |-> outcome]

\* limit=100 of the scan for thread parents
RecentLimit == 100

Returned(m, cs) == [ret |-> m, exc |-> NoneStr, calls |-> cs]
Raised(e, cs) == [ret |-> NoMessage, exc |-> e, calls |-> cs]

\* the first message of a thread whose ts equals message_ts, or NoMessage
FirstMatch(thread, message_ts) ==
    LET hits == { i \in 1..Len(thread) : thread[i].ts = message_ts }
    IN IF hits = {} THEN NoMessage
       ELSE thread[CHOOSE i \in hits : \A j \in hits : i <= j]

\* the loop over recent_response["messages"], from its i-th message on
RECURSIVE ScanThreads_stop_on_error(_, _, _, _, _, _)
ScanThreads_stop_on_error(window, i, message_ts, c, f, content) ==
    IF i > Len(window) THEN Returned(NoMessage, <<>>)
    ELSE
      LET potential_parent == window[i]
          rest == ScanThreads_stop_on_error(window, i + 1, message_ts, c, f, content)
      IN IF potential_parent.reply_count > 0
         THEN
           LET out == f.replies[potential_parent.ts]
               call == Call("conversations.replies", potential_parent.ts, out)
               hit == FirstMatch(conversations_replies(c, potential_parent.ts, content),
                                 message_ts)
           IN IF out = "Exception" THEN Raised("Exception", <<call>>)
              ELSE IF out = "SlackApiError" THEN Returned(NoMessage, <<call>>)
              ELSE IF hit = NoMessage THEN [rest EXCEPT !.calls = <<call>> \o @]
              ELSE Returned(hit, <<call>>)
         ELSE rest

RECURSIVE ScanThreads(_, _, _, _, _, _)
ScanThreads(window, i, message_ts, c, f, content) ==
    IF i > Len(window) THEN Returned(NoMessage, <<>>)
    ELSE
      LET potential_parent == window[i]
          rest == ScanThreads(window, i + 1, message_ts, c, f, content)
      IN IF potential_parent.reply_count > 0
         THEN
           LET out == f.replies[potential_parent.ts]
               call == Call("conversations.replies", potential_parent.ts, out)
               hit == FirstMatch(conversations_replies(c, potential_parent.ts, content),
                                 message_ts)
           IN IF out = "Exception" THEN Raised("Exception", <<call>>)
              ELSE IF out = "SlackApiError" \/ hit = NoMessage
                   THEN [rest EXCEPT !.calls = <<call>> \o @]
              ELSE Returned(hit, <<call>>)
         ELSE rest

\* SlackClient.get_message_info(channel_id, message_ts): the message or
\* NoMessage (None), the exception that escapes it if one does, and the calls
\* it made.  f gives the outcome of each platform call.
get_message_info(channel_id, message_ts, c, from, f, content) ==
    LET first == Call("conversations.history", message_ts,
                      IF channel_id = KnownChannel \/ f.history1 = "Exception"
                      THEN f.history1 ELSE "SlackApiError")
        response == conversations_history(c, message_ts, TRUE, 1, from, content)
        second == Call("conversations.history", 0, f.history2)
        recent_response == conversations_history(c, 0, FALSE, RecentLimit, from, content)
        scan == ScanThreads(recent_response, 1, message_ts, c, f, content)
    IN IF first.outcome = "SlackApiError" THEN Returned(NoMessage, <<first>>)
       ELSE IF first.outcome = "Exception" THEN Raised("Exception", <<first>>)
       ELSE IF response # <<>> THEN Returned(response[1], <<first>>)
       ELSE IF second.outcome = "SlackApiError" THEN Returned(NoMessage, <<first, second>>)
       ELSE IF second.outcome = "Exception" THEN Raised("Exception", <<first, second>>)
       ELSE [scan EXCEPT !.calls = <<first, second>> \o @]

NoFaults == [history1 |-> "ok", history2 |-> "ok", replies |-> [t \in Ts |-> "ok"]]

PageEnds == {"newest", "oldest"}

\* the faults that can be met on channel c: a thread fetch is made for top-level
\* messages with replies only, and no call follows a failed history call
FaultsOn(c) ==
    LET threads == { t \in Ts : RepliesOf(c, t) # {} }
    IN { f \in { [history1 |-> h1, history2 |-> h2,
                  replies |-> [t \in Ts |-> IF t \in threads THEN r[t] ELSE "ok"]] :
                    h1 \in Outcomes, h2 \in Outcomes, r \in [threads -> Outcomes] } :
           (f.history1 # "ok" \/ f.history2 # "ok")
              => (\A t \in Ts : f.replies[t] = "ok") /\ (f.history1 = "ok" \/ f.history2 = "ok") }

ResolveArgs(c) ==
    [channel_id : {KnownChannel}, message_ts : Ts, f : FaultsOn(c),
     content : {PlainContent}]

-----------------------------------------------------------------------------
(* Configuration: app/config.py *)

\* the fields of class Settings
Settings ==
    [slack_bot_token |-> "xoxb-token",
     slack_signing_secret |-> SigningSecret,
     slack_app_token |-> "xapp-token",
     airtable_api_token |-> "pat-token",
     airtable_base_id |-> "appBase",
     airtable_table_name |-> "Pain Points",
     airtable_field_name |-> "Name",
     environment |-> "development",
     log_level |-> "INFO",
     target_emoji |-> "fedex"]

\* getattr(settings, key) raises AttributeError for a name the class lacks
HasAttr(obj, key) == key \in DOMAIN obj
GetAttr(obj, key) == obj[key]

-----------------------------------------------------------------------------
(* The record store client: app/airtable/client.py *)

\* the outcomes of Table.create: a record, or an exception
StoreOutcomes == {"ok", "Exception"}

NoRecord == [id |-> NoneStr]
StoreRecord == [id |-> "rec1"]

\* binding positional arguments to a method's parameters (self left out):
\* more arguments than parameters, or fewer than the parameters without a
\* default, is a TypeError
Binds(required, optional, nargs) == required <= nargs /\ nargs <= required + optional

StoreReturned(r, cs) == [ret |-> r, exc |-> NoneStr, calls |-> cs]
StoreRaised(e) == [ret |-> NoRecord, exc |-> e, calls |-> <<>>]

\* AirtableClient.create_record(self, fields)
create_record(args, store) ==
    IF ~Binds(1, 0, Len(args)) THEN StoreRaised("TypeError")
    ELSE LET fields == args[1]
             call == Call("table.create", fields, store)
         IN IF store = "ok" THEN StoreReturned(StoreRecord, <<call>>)
            ELSE StoreReturned(NoRecord, <<call>>)

\* AirtableClient.upload_attachments(self, image_attachments): reads
\* attachment['content'], which no attachment built by the handler has, so
\* every upload fails inside its own try and nothing is uploaded
upload_attachments(image_attachments) ==
    SelectSeq(image_attachments, LAMBDA a : "content" \in DOMAIN a)

\* AirtableClient.create_record_with_attachments(self, fields,
\*     image_attachments, attachment_field="Screenshot")
create_record_with_attachments(args, store) ==
    IF ~Binds(2, 1, Len(args)) THEN StoreRaised("TypeError")
    ELSE LET fields == args[1]
             image_attachments == args[2]
             attachment_field == IF Len(args) >= 3 THEN args[3] ELSE "Screenshot"
             uploaded == upload_attachments(image_attachments)
             withAtt == IF image_attachments # <<>> /\ uploaded # <<>>
                        THEN [k \in DOMAIN fields \cup {attachment_field} |->
                                IF k = attachment_field THEN uploaded ELSE fields[k]]
                        ELSE fields
         IN create_record(<<withAtt>>, store)

-----------------------------------------------------------------------------
(* The reaction handlers: app/slack/handlers.py *)

EMOJI_DESTINATION_MAP ==
    [e \in {"papercut-small", "papercut-md", "papercut-big",
            "papercut-immediate-in-progress", "fedex", "changelog"} |->
       CASE e = "papercut-small" ->
              [base_id_key |-> "airtable_base_id", table_name_key |-> "airtable_table_name",
               field_name_key |-> "airtable_field_name", pain_score |-> "sm"]
         [] e = "papercut-md" ->
              [base_id_key |-> "airtable_base_id", table_name_key |-> "airtable_table_name",
               field_name_key |-> "airtable_field_name", pain_score |-> "md"]
         [] e = "papercut-big" ->
              [base_id_key |-> "airtable_base_id", table_name_key |-> "airtable_table_name",
               field_name_key |-> "airtable_field_name", pain_score |-> "lg"]
         [] e = "papercut-immediate-in-progress" ->
              [base_id_key |-> "airtable_base_id", table_name_key |-> "airtable_table_name",
               field_name_key |-> "airtable_field_name", pain_score |-> "lg",
               status |-> "In Progress"]
         [] e = "fedex" ->
              [base_id_key |-> "airtable_base_id", table_name_key |-> "airtable_table_name",
               field_name_key |-> "airtable_field_name", pain_score |-> NoneStr]
         [] e = "changelog" ->
              [base_id_key |-> "changelog_airtable_base_id",
               table_name_key |-> "changelog_airtable_table_name",
               field_name_key |-> "changelog_airtable_field_name",
               pain_score |-> NoneStr]]

\* SLACK_USER_MAP as the deployment sets it in the environment: a JSON object
\* from Slack user id to Assignee name
SlackUserMapEnv == [u \in {"U1"} |-> "Casey"]

\* get_assignee_name(user_id): settings.slack_user_map is read inside the try;
\* a Settings without that field raises AttributeError there, which the
\* except turns into None
get_assignee_name(user_id) ==
    IF ~HasAttr(Settings, "slack_user_map") THEN NoneStr
    ELSE Get(GetAttr(Settings, "slack_user_map"), user_id, NoneStr)

\* file.get("mimetype", "").startswith("image/")
IsImage(file) == file.mimetype[1] = "image"

RECURSIVE ExtractFrom_stop_at_missing_url(_, _)
ExtractFrom_stop_at_missing_url(files, i) ==
    IF i > Len(files) THEN <<>>
    ELSE LET file == files[i]
             filename == IF file.name = NoneStr THEN "screenshot.png" ELSE file.name
             auth_url == <<file.url_private, "?token=", Settings.slack_bot_token>>
         IN IF IsImage(file) /\ ~Truthy(file.url_private) THEN <<>>
            ELSE (IF IsImage(file) THEN <<[filename |-> filename, url |-> auth_url]>> ELSE <<>>)
                 \o ExtractFrom_stop_at_missing_url(files, i + 1)

\* extract_image_attachments(message)
RECURSIVE ExtractFrom(_, _)
ExtractFrom(files, i) ==
    IF i > Len(files) THEN <<>>
    ELSE LET file == files[i]
             filename == IF file.name = NoneStr THEN "screenshot.png" ELSE file.name
             auth_url == <<file.url_private, "?token=", Settings.slack_bot_token>>
         IN (IF IsImage(file) /\ Truthy(file.url_private)
             THEN <<[filename |-> filename, url |-> auth_url]>> ELSE <<>>)
            \o ExtractFrom(files, i + 1)

RECURSIVE Distinct(_)
Distinct(s) ==
    IF s = <<>> THEN <<>>
    ELSE LET n == Len(s)
             init == Distinct(SubSeq(s, 1, n - 1))
         IN IF \E j \in 1..(n - 1) : s[j] = s[n] THEN init ELSE Append(init, s[n])

extract_image_attachments_distinct(message) == Distinct(ExtractFrom(message.files, 1))

extract_image_attachments(message) == ExtractFrom(message.files, 1)

NoContext ==
    [reactor_user |-> NoneStr, message_author |-> NoneStr, channel_name |-> NoneStr,
     pain_score |-> NoneStr, emoji_config |-> [pain_score |-> NoneStr],
     assignee_name |-> NoneStr]

\* the field map built at lines 252-267
BuildFields(field_name, message_text, context) ==
    LET emoji_config == context.emoji_config
        status == Get(emoji_config, "status", "Intake")
        names == {field_name, "Status"}
                   \cup (IF Truthy(context.pain_score) THEN {"Pain Score"} ELSE {})
                   \cup (IF Truthy(context.assignee_name) THEN {"Assignee"} ELSE {})
    IN [k \in names |->
          CASE k = "Assignee" -> context.assignee_name
            [] k = "Pain Score" -> context.pain_score
            [] k = "Status" -> status
            [] OTHER -> message_text]

\* message_text[:100]
PreviewLen == 100
\* "...": characters are numbers, the full stop is 0
Ellipsis == <<0, 0, 0>>

message_preview_full(message_text) == message_text

\* the "message_preview" of the three log calls of create_airtable_record:
\* message_text[:100] + "..." if len(message_text) > 100 else message_text,
\* the text being a sequence of characters
message_preview(message_text) ==
    IF Len(message_text) > PreviewLen
    THEN SubSeq(message_text, 1, PreviewLen) \o Ellipsis
    ELSE message_text

\* which of the three log calls is made: after a record (line 281), after no
\* record (288) or in the except (295)
LogSite(made) ==
    IF made.exc # NoneStr THEN "exception"
    ELSE IF made.ok THEN "success" ELSE "failure"

create_airtable_record_optimistic(message_text, message, context, store) ==
    [ok |-> TRUE, exc |-> NoneStr, calls |-> <<>>]

\* create_airtable_record(message_text, message, context): True or False, and
\* the store calls made.  An exception of any step is caught at line 294.
create_airtable_record(message_text, message, context, store) ==
    LET emoji_config == context.emoji_config
        keys == <<emoji_config.base_id_key, emoji_config.table_name_key,
                  emoji_config.field_name_key>>
    IN IF \E i \in 1..3 : ~HasAttr(Settings, keys[i])
       THEN [ok |-> FALSE, exc |-> "AttributeError", calls |-> <<>>]
       ELSE
         LET base_id == GetAttr(Settings, keys[1])
             table_name == GetAttr(Settings, keys[2])
             field_name == GetAttr(Settings, keys[3])
             fields == BuildFields(field_name, message_text, context)
             image_attachments == extract_image_attachments(message)
             made == IF image_attachments # <<>>
                     THEN create_record_with_attachments(
                            <<fields, image_attachments, base_id, table_name>>, store)
                     ELSE create_record(<<fields, base_id, table_name>>, store)
         IN [ok |-> made.exc = NoneStr /\ made.ret # NoRecord,
             exc |-> made.exc, calls |-> made.calls]

handle_reaction_removed_validating(event) ==
    Truthy(event.user) /\ Truthy(event.channel) /\ event.ts # 0

\* handle_reaction_removed(event): logs, returns True
handle_reaction_removed(event) == TRUE

RouteAndValidate_fields_first(event) ==
    IF ~(Truthy(event.user) /\ Truthy(event.channel) /\ event.ts # 0) THEN "missing"
    ELSE IF event.reaction \notin DOMAIN EMOJI_DESTINATION_MAP THEN "ignored"
    ELSE "resolve"

RouteAndValidate_any_field(event) ==
    IF event.reaction \notin DOMAIN EMOJI_DESTINATION_MAP THEN "ignored"
    ELSE IF ~(Truthy(event.user) \/ Truthy(event.channel) \/ event.ts # 0) THEN "missing"
    ELSE "resolve"

\* lines 100-127 of handle_reaction_added: "ignored" (return True), "missing"
\* (return False) or "resolve" (go on to fetch the message)
RouteAndValidate(event) ==
    IF event.reaction \notin DOMAIN table THEN "ignored"
    ELSE IF ~(Truthy(event.user) /\ Truthy(event.channel) /\ event.ts # 0) THEN "missing"
    ELSE "resolve"

-----------------------------------------------------------------------------
(* The endpoint: slack_events of app/main.py *)

Answer(http, kind) ==
    [http |-> http, kind |-> kind, escaped |-> NoneStr, challenge |-> NoneStr]
NoResult == Answer(0, NoneStr)
Acknowledged == Answer(200, "ok")
\* {"challenge": challenge}
Challenge(value) == [Answer(200, "challenge") EXCEPT !.challenge = value]
Unauthorized == Answer(401, "unauthorized")
BadRequest == Answer(400, "bad_request")
Failed_as_success == Answer(200, "failed")
\* status 500 with {"error": "Failed to process event"}
Failed == Answer(500, "failed")
InternalError == Answer(500, "internal_error")
\* an exception that leaves slack_events uncaught
Escaped(e) == [Answer(500, "uncaught") EXCEPT !.escaped = e]

NoLocal == [message |-> NoMessage, context |-> NoContext, store |-> NoneStr]

\* headers.get(...) of the two signature headers
DispatchTsHeaders ==
    {TsMissing, TsMalformed, TsHeader("digits", Now),
     TsHeader("digits", Now - (ReplayWindow + 1))}

EventTypes == {"reaction_added", "reaction_removed", "message"}
Reactions == DOMAIN EMOJI_DESTINATION_MAP \cup {"thumbsup", NoneStr}
Users == {NoneStr, "U1", "U2"}

Events ==
    [type : EventTypes, reaction : Reactions, user : Users,
     channel : {NoneStr, KnownChannel}, ts : 0..MaxEventTs] \cup {NoEvent}

\* challenge values of url_verification payloads; PlainBody("url_verification")
\* is the payload without a challenge key
Challenges == {"c-1", "c-2"}
ChallengeBody(c) == [PlainBody("url_verification") EXCEPT !.challenge = c]

Bodies ==
    { PlainBody(k) : k \in {"nonutf8", "badjson", "nonobject", "url_verification", "other"} }
      \cup { ChallengeBody(c) : c \in Challenges }
      \cup { [PlainBody("event_callback") EXCEPT !.event = e] : e \in Events }

\* the bodies sent with headers that do not verify: verification reads the
\* body as bytes only, so a few events stand for all of them
ProbeBodies ==
    { b \in Bodies :
        b.kind = "event_callback" =>
           /\ b.event.reaction \in {"fedex", "thumbsup"}
           /\ b.event.user = "U1"
           /\ b.event.channel = KnownChannel
           /\ b.event.ts = 1 }

Requests ==
    { r \in [ts : DispatchTsHeaders, body : Bodies,
             sig : {"missing", SigningSecret, OtherSecret}] :
        /\ r.sig = SigningSecret => IsUtf8(r.body)
        /\ (r.sig # SigningSecret \/ r.ts # TsHeader("digits", Now))
              => r.body \in ProbeBodies }

Request(r) ==
    [ts |-> r.ts, body |-> r.body,
     sig |-> IF r.sig = "missing" THEN SigMissing
             ELSE SignatureText("v0=", r.sig, r.ts, r.body)]

\* not timestamp or not signature
HeaderMissing(r) == r.ts = TsMissing \/ r.sig = SigMissing

\* the platform faults tried while a request is served: every thread fetch of
\* one request meets the same outcome, and a lookup whose first call fails
\* makes no further call, so no fault is drawn for one
DispatchFaults ==
    { f \in { [history1 |-> h1, history2 |-> h2, replies |-> [t \in Ts |-> r]] :
                h1 \in Outcomes, h2 \in Outcomes, r \in Outcomes } :
        f.history1 # "ok" => (f.history2 = "ok" /\ \A t \in Ts : f.replies[t] = "ok") }

IdleRequest == [ts |-> TsMissing, sig |-> SigMissing, body |-> PlainBody("badjson")]

Idle ==
    /\ req = IdleRequest
    /\ calls = <<>>
    /\ result = NoResult
    /\ local = NoLocal
    /\ stages = <<>>
    /\ table = EMOJI_DESTINATION_MAP

Init ==
    /\ clock2 = 2 * Now
    /\ pageFrom \in PageEnds
    /\ chan \in DispatchChannels
    /\ Idle
    /\ pc = "idle"
    /\ arg = NoneStr
    /\ ret = NoneStr

Finish(answer) ==
    /\ result' = answer
    /\ pc' = "done"

\* a POST to /slack/events arrives
Receive ==
    /\ pc = "idle"
    /\ \E r \in Requests : req' = Request(r)
    /\ pc' = "verify"
    /\ UNCHANGED <<clock2, pageFrom, chan, table, calls, result, local, stages, arg, ret>>

Verify_challenge_first ==
    /\ pc = "verify"
    /\ IF req.body.kind = "url_verification" THEN pc' = "parse" /\ UNCHANGED result
       ELSE IF HeaderMissing(req) THEN Finish(Unauthorized)
       ELSE LET v == verify_slack_signature(req.body, req.ts, req.sig, clock2)
            IN CASE v = "True" -> pc' = "parse" /\ UNCHANGED result
                 [] v = "False" -> Finish(Unauthorized)
                 [] OTHER -> Finish(Escaped(v))
    /\ stages' = stages \o <<"verify">>
    /\ UNCHANGED <<clock2, pageFrom, chan, table, req, calls, local, arg, ret>>

\* main.py lines 81-96: the header check, then verify_slack_signature
Verify ==
    /\ pc = "verify"
    /\ IF HeaderMissing(req) THEN Finish(Unauthorized)
       ELSE LET v == verify_slack_signature(req.body, req.ts, req.sig, clock2)
            IN CASE v = "True" -> pc' = "parse" /\ UNCHANGED result
                 [] v = "False" -> Finish(Unauthorized)
                 [] OTHER -> Finish(Escaped(v))
    /\ stages' = stages \o <<"verify">>
    /\ UNCHANGED <<clock2, pageFrom, chan, table, req, calls, local, arg, ret>>

Parse_lenient ==
    /\ pc = "parse"
    /\ CASE req.body.kind = "event_callback" -> pc' = "filter" /\ UNCHANGED result
         [] req.body.kind = "url_verification" -> Finish(Challenge(req.body.challenge))
         [] req.body.kind = "nonobject" -> Finish(Escaped("AttributeError"))
         [] OTHER -> Finish(Acknowledged)
    /\ stages' = stages \o <<"parse">>
    /\ UNCHANGED <<clock2, pageFrom, chan, table, req, calls, local, arg, ret>>

\* main.py lines 98-115 and 146-147: request.json(), the url_verification
\* echo, and the envelope type
Parse ==
    /\ pc = "parse"
    /\ CASE req.body.kind = "event_callback" -> pc' = "filter" /\ UNCHANGED result
         [] req.body.kind = "url_verification" -> Finish(Challenge(req.body.challenge))
         [] req.body.kind = "nonobject" -> Finish(Escaped("AttributeError"))
         [] req.body.kind = "other" -> Finish(Acknowledged)
         [] OTHER -> Finish(BadRequest)
    /\ stages' = stages \o <<"parse">>
    /\ UNCHANGED <<clock2, pageFrom, chan, table, req, calls, local, arg, ret>>

Filter_any_type ==
    /\ pc = "filter"
    /\ pc' = "route"
    /\ stages' = stages \o <<"filter">>
    /\ UNCHANGED <<clock2, pageFrom, chan, table, req, calls, result, local, arg, ret>>

\* main.py lines 116-131: the event type picks the handler
Filter ==
    /\ pc = "filter"
    /\ LET event == req.body.event
       IN CASE event.type = "reaction_added" -> pc' = "route" /\ UNCHANGED result
            [] event.type = "reaction_removed" ->
                 Finish(IF handle_reaction_removed(event) THEN Acknowledged ELSE Failed)
            [] OTHER -> Finish(Acknowledged)
    /\ stages' = stages \o <<"filter">>
    /\ UNCHANGED <<clock2, pageFrom, chan, table, req, calls, local, arg, ret>>

\* the stages a step of RouteAndValidate went through: the field check is
\* reached only by a reaction of the table
StagesOfRoute(step) == IF step = "ignored" THEN <<"route">> ELSE <<"route", "validate">>

Route_marking ==
    /\ pc = "route"
    /\ LET event == req.body.event
           step == RouteAndValidate(event)
       IN /\ CASE step = "ignored" -> Finish(Acknowledged) /\ UNCHANGED local
               [] step = "missing" -> Finish(Failed) /\ UNCHANGED local
               [] OTHER ->
                    LET emoji_config == table[event.reaction]
                    IN /\ local' = [local EXCEPT
                                      !.context.emoji_config = emoji_config,
                                      !.context.pain_score = emoji_config.pain_score]
                       /\ pc' = "resolve"
                       /\ UNCHANGED result
          /\ stages' = stages \o StagesOfRoute(step)
    /\ table' = [e \in DOMAIN table |->
                    IF e = req.body.event.reaction THEN [pain_score |-> NoneStr] ELSE table[e]]
    /\ UNCHANGED <<clock2, pageFrom, chan, req, calls, arg, ret>>

\* handle_reaction_added lines 98-127: the emoji lookup and the field check
Route ==
    /\ pc = "route"
    /\ LET event == req.body.event
           step == RouteAndValidate(event)
       IN /\ CASE step = "ignored" -> Finish(Acknowledged) /\ UNCHANGED local
               [] step = "missing" -> Finish(Failed) /\ UNCHANGED local
               [] OTHER ->
                    LET emoji_config == table[event.reaction]
                    IN /\ local' = [local EXCEPT
                                      !.context.emoji_config = emoji_config,
                                      !.context.pain_score = emoji_config.pain_score]
                       /\ pc' = "resolve"
                       /\ UNCHANGED result
          /\ stages' = stages \o StagesOfRoute(step)
    /\ UNCHANGED <<clock2, pageFrom, chan, table, req, calls, arg, ret>>

TextMissing_never(message) == FALSE

\* lines 141-142: message.get("text", "") is falsy
TextMissing(message) == ~Truthy(message.text)

\* handle_reaction_added lines 129-147: get_message_info and the text check;
\* an exception leaving get_message_info is caught at line 183
Resolve ==
    /\ pc = "resolve"
    /\ \E f \in DispatchFaults, content \in Contents :
         LET event == req.body.event
             got == get_message_info(event.channel, event.ts, chan, pageFrom, f, content)
             message == got.ret
         IN /\ calls' = calls \o got.calls
            /\ local' = [local EXCEPT !.message = message]
            /\ IF got.exc # NoneStr \/ message = NoMessage \/ TextMissing(message)
               THEN Finish(Failed)
               ELSE pc' = "enrich" /\ UNCHANGED result
    /\ stages' = stages \o <<"resolve">>
    /\ UNCHANGED <<clock2, pageFrom, chan, table, req, arg, ret>>

\* SlackClient.get_user_info / get_channel_info: the name on a response, None
\* on SlackApiError; any other exception leaves the method
LookupName(id, outcome) == IF outcome = "ok" THEN <<"name-of", id>> ELSE <<"id", id>>

\* handle_reaction_added lines 149-171: the two lookups, the assignee and
\* the context
Enrich ==
    /\ pc = "enrich"
    /\ \E u \in Outcomes, c \in Outcomes :
         LET event == req.body.event
             userCall == Call("users.info", event.user, u)
             chanCall == Call("conversations.info", event.channel, c)
         IN IF u = "Exception"
            THEN /\ calls' = calls \o <<userCall>>
                 /\ Finish(Failed)
                 /\ UNCHANGED local
            ELSE IF c = "Exception"
            THEN /\ calls' = calls \o <<userCall, chanCall>>
                 /\ Finish(Failed)
                 /\ UNCHANGED local
            ELSE /\ calls' = calls \o <<userCall, chanCall>>
                 /\ local' = [local EXCEPT
                                !.context.reactor_user = LookupName(event.user, u),
                                !.context.message_author = local.message.user,
                                !.context.channel_name = LookupName(event.channel, c),
                                !.context.assignee_name = get_assignee_name(event.user)]
                 /\ pc' = "submit"
                 /\ UNCHANGED result
    /\ stages' = stages \o <<"enrich">>
    /\ UNCHANGED <<clock2, pageFrom, chan, table, req, arg, ret>>

\* the stages of create_airtable_record: the field map is built once the
\* destination is read from the settings, and then handed to the store client
StagesOfBuild(made) ==
    IF made.exc = "AttributeError" THEN <<"build">> ELSE <<"build", "submit">>

\* handle_reaction_added lines 173-181 with create_airtable_record; store is
\* how the record store would answer a create call
Submit ==
    /\ pc = "submit"
    /\ \E store \in StoreOutcomes :
         LET made == create_airtable_record(local.message.text, local.message,
                                            local.context, store)
         IN /\ calls' = calls \o made.calls
            /\ local' = [local EXCEPT !.store = store]
            /\ stages' = stages \o StagesOfBuild(made)
            /\ Finish(IF made.ok THEN Acknowledged ELSE Failed)
    /\ UNCHANGED <<clock2, pageFrom, chan, table, req, arg, ret>>

\* the answer is sent; the endpoint waits for the next request
Respond ==
    /\ pc = "done"
    /\ req' = IdleRequest
    /\ calls' = <<>>
    /\ result' = NoResult
    /\ local' = NoLocal
    /\ stages' = <<>>
    /\ pc' = "idle"
    /\ UNCHANGED <<clock2, pageFrom, chan, table, arg, ret>>

Next ==
    \/ Receive
    \/ Verify
    \/ Parse
    \/ Filter
    \/ Route
    \/ Resolve
    \/ Enrich
    \/ Submit
    \/ Respond

Spec == Init /\ [][Next]_vars

-----------------------------------------------------------------------------
(* Functions called on their own *)

InitVerify ==
    /\ clock2 = 2 * Now
    /\ pageFrom = "newest"
    /\ chan = [t \in Ts |-> 0]
    /\ Idle
    /\ pc = "called"
    /\ arg \in VerifyArgs
    /\ ret = NoneStr

\* one call of verify_slack_signature at the instant arg.now2
VerifyCall ==
    /\ pc = "called"
    /\ clock2' = arg.now2
    /\ ret' = verify_slack_signature(arg.body, arg.ts, arg.sig, arg.now2)
    /\ pc' = "returned"
    /\ UNCHANGED <<pageFrom, chan, table, req, calls, result, local, stages, arg>>

NextVerify == VerifyCall

SpecVerify == InitVerify /\ [][NextVerify]_vars

InitResolve ==
    /\ clock2 = 2 * Now
    /\ pageFrom \in PageEnds
    /\ chan \in Channels
    /\ Idle
    /\ pc = "called"
    /\ arg \in ResolveArgs(chan)
    /\ ret = Returned(NoMessage, <<>>)

\* one call of get_message_info on the channel
ResolveCall ==
    /\ pc = "called"
    /\ ret' = get_message_info(arg.channel_id, arg.message_ts, chan, pageFrom,
                               arg.f, arg.content)
    /\ pc' = "returned"
    /\ UNCHANGED <<clock2, pageFrom, chan, table, req, calls, result, local, stages, arg>>

NextResolve == ResolveCall

SpecResolve == InitResolve /\ [][NextResolve]_vars

-----------------------------------------------------------------------------
(* Properties *)

\* the request carries both headers, a timestamp inside the replay window and
\* the signature the configured secret gives for its timestamp and body
Authentic(r) ==
    /\ ~HeaderMissing(r)
    /\ IsIntLiteral(r.ts)
    /\ Abs(clock2 - 2 * IntOf(r.ts)) <= 2 * 300
    /\ r.sig = SignatureText("v0=", SigningSecret, r.ts, r.body)

\* an authentic event_callback carrying an event of the given type was served
Served(type) ==
    /\ pc = "done"
    /\ Authentic(req)
    /\ req.body.kind = "event_callback"
    /\ req.body.event.type = type

Routable(event) == event.reaction \in DOMAIN EMOJI_DESTINATION_MAP
FieldsPresent(event) == event.user # NoneStr /\ event.channel # NoneStr /\ event.ts # 0

CallsOf(api) == { i \in 1..Len(calls) : calls[i].api = api }

\* C1: a reaction_added event whose emoji is not a key of the destination
\* table is acknowledged and causes no outbound call at all, whatever its
\* other fields are.
C1_UnknownEmojiIgnored ==
    (Served("reaction_added") /\ ~Routable(req.body.event))
        => (result = Acknowledged /\ calls = <<>>)

C1_Witness ==
    /\ Served("reaction_added")
    /\ req.body.event.reaction = "thumbsup"
    /\ req.body.event.user = NoneStr
    /\ req.body.event.ts = 0
    /\ result = Acknowledged

\* C2: a reaction_added event with a routable emoji, all fields present, a
\* message resolved with non-empty text and a store that accepts the create
\* call is acknowledged after exactly one create-record call, whose field
\* map holds the message text under the configured text field.
C2_RecordCreated ==
    (/\ Served("reaction_added")
     /\ Routable(req.body.event)
     /\ FieldsPresent(req.body.event)
     /\ local.message # NoMessage
     /\ local.message.text # ""
     /\ local.store = "ok")
        => /\ result = Acknowledged
           /\ Cardinality(CallsOf("table.create")) = 1
           /\ \A i \in CallsOf("table.create") :
                 /\ Settings.airtable_field_name \in DOMAIN calls[i].arg
                 /\ calls[i].arg[Settings.airtable_field_name] = local.message.text

C4_MissingFieldsFail ==
    (/\ Served("reaction_added")
     /\ Routable(req.body.event)
     /\ ~FieldsPresent(req.body.event))
        => (result = Failed /\ calls = <<>>)

C4_Witness ==
    /\ Served("reaction_added")
    /\ req.body.event.reaction = "fedex"
    /\ req.body.event.user = NoneStr
    /\ req.body.event.channel = KnownChannel
    /\ req.body.event.ts # 0
    /\ result = Failed

\* C5: a request whose signature verification fails (a header missing, the
\* timestamp outside the window, or a signature that is not the expected
\* one) is rejected as unauthorized with no outbound call, whatever its body.
C5_UnverifiedRejected ==
    (/\ pc = "done"
     /\ \/ HeaderMissing(req)
        \/ (IsIntLiteral(req.ts) /\ Abs(clock2 - 2 * IntOf(req.ts)) > 2 * 300)
        \/ req.sig # SignatureText("v0=", SigningSecret, req.ts, req.body))
        => (result = Unauthorized /\ calls = <<>>)

\* C6: verify returns false for every timestamp more than 300 seconds from
\* the current time, before or after it, even with the correct signature;
\* at exactly 300 seconds a correct signature is still accepted.
C6_ReplayWindow ==
    (pc = "returned" /\ IsIntLiteral(arg.ts))
        => /\ (Abs(arg.now2 - 2 * IntOf(arg.ts)) > 2 * 300) => ret = "False"
           /\ (/\ Abs(arg.now2 - 2 * IntOf(arg.ts)) = 2 * 300
               /\ arg.sig = SignatureText("v0=", SigningSecret, arg.ts, arg.body))
                  => ret = "True"

C6_Witness ==
    /\ pc = "returned"
    /\ IsIntLiteral(arg.ts)
    /\ arg.now2 - 2 * IntOf(arg.ts) = 2 * 300 + 1
    /\ arg.sig = SignatureText("v0=", SigningSecret, arg.ts, arg.body)
    /\ ret = "False"

C8_MalformedHeadersRejected ==
    (pc = "done" /\ (req.ts = TsMissing \/ ~IsIntLiteral(req.ts) \/ req.sig = SigMissing))
        => result = Unauthorized

\* C9: every request ends in Acknowledged, Rejected or Failed; no exception
\* escapes the endpoint.
C9_NoEscape ==
    pc = "done"
        => /\ result.escaped = NoneStr
           /\ result \in {Acknowledged, Unauthorized, BadRequest, Failed, InternalError}
                           \cup { Challenge(c) : c \in Challenges \cup {NoneStr} }

\* C10: without platform faults, a message that exists only as a reply of a
\* thread whose parent is in the scanned window is the message resolve
\* returns, and resolve returns None when no message of the channel, top
\* level or reply, has the requested timestamp.
C10_ThreadReplyResolved ==
    (pc = "returned" /\ arg.f = NoFaults)
        => /\ (chan[arg.message_ts] \notin {0, arg.message_ts})
                => ret.ret = Message(chan, arg.message_ts, arg.content)
           /\ (chan[arg.message_ts] = 0)
                => (ret.ret = NoMessage /\ ret.exc = NoneStr)


\* the request went through the stage
Ran(stage) == \E i \in 1..Len(stages) : stages[i] = stage

\* the message lookup of the request returned a message
Resolved == Ran("resolve") /\ local.message # NoMessage

\* C11 (as the code has it): when the resolved message has empty text the
\* dispatch ends Failed right after the lookup, with or without image files:
\* no user or channel lookup is made and no create-record call is issued.
C11_EmptyTextFails ==
    (pc = "done" /\ Resolved /\ local.message.text = "")
        => /\ result = Failed
           /\ ~Ran("enrich")
           /\ CallsOf("users.info") = {}
           /\ CallsOf("conversations.info") = {}
           /\ CallsOf("table.create") = {}

C11_Witness ==
    /\ pc = "done"
    /\ Resolved
    /\ local.message.text = ""
    /\ local.message.files = <<ImagePng>>
    /\ result = Failed

\* C11 as stated: a resolved message with empty text and at least one image
\* file produces a create-record call and no Failed outcome.
C11_EmptyTextProceeds ==
    (/\ pc = "done"
     /\ Resolved
     /\ local.message.text = ""
     /\ extract_image_attachments(local.message) # <<>>)
        => (result # Failed /\ CallsOf("table.create") # {})

\* a create call reached the record store and the store returned a record
StoreReturnedRecord == \E i \in CallsOf("table.create") : calls[i].outcome = "ok"

\* C12: when the store client returns no record or raises during the create
\* call, create_airtable_record returns False and the dispatch ends Failed;
\* it returns True (the dispatch is acknowledged) only if the store returned
\* a record.
C12_StoreFailureFails ==
    (pc = "done" /\ Ran("build"))
        => /\ (result = Acknowledged => StoreReturnedRecord)
           /\ (~StoreReturnedRecord => result = Failed)

C12_Witness ==
    /\ pc = "done"
    /\ Ran("submit")
    /\ local.message.files = <<ImagePng>>
    /\ ~StoreReturnedRecord
    /\ result = Failed

\* the stages of a dispatch, in the order slack_events and
\* handle_reaction_added go through them
StageOrder ==
    <<"verify", "parse", "filter", "route", "validate", "resolve", "enrich",
      "build", "submit">>

IsPrefix(s, t) == Len(s) <= Len(t) /\ \A i \in 1..Len(s) : s[i] = t[i]

\* every call of the first kind was issued before every call of the second
CallsBefore(first, second) ==
    \A i \in CallsOf(first), j \in CallsOf(second) : i < j

\* C13: the stages of a dispatch run in the order verify, parse, filter,
\* route, validate, resolve, enrich, build, submit, none skipped, and a stage
\* runs only if every earlier one succeeded: parsing needs a verified
\* request, routing a reaction_added event, validation a matching rule,
\* resolution all required fields, enrichment a resolved message, building
\* two lookups that did not raise.  Outbound calls follow the same order, and
\* a create-record call comes only after all of these.
C13_StageOrder ==
    /\ IsPrefix(stages, StageOrder)
    /\ Ran("parse") => Authentic(req)
    /\ Ran("filter") => req.body.kind = "event_callback"
    /\ Ran("route") => req.body.event.type = "reaction_added"
    /\ Ran("validate") => Routable(req.body.event)
    /\ Ran("resolve") => FieldsPresent(req.body.event)
    /\ Ran("enrich") => Resolved
    /\ Ran("build") =>
          /\ CallsOf("users.info") # {} /\ CallsOf("conversations.info") # {}
          /\ \A i \in CallsOf("users.info") \cup CallsOf("conversations.info") :
                calls[i].outcome # "Exception"
    /\ CallsOf("conversations.history") # {} => Ran("resolve")
    /\ CallsOf("users.info") # {} => Ran("enrich")
    /\ CallsOf("table.create") # {} => Ran("submit")
    /\ CallsBefore("conversations.history", "users.info")
    /\ CallsBefore("conversations.replies", "users.info")
    /\ CallsBefore("users.info", "conversations.info")
    /\ CallsBefore("conversations.info", "table.create")

C13_Witness ==
    /\ pc = "done"
    /\ stages = StageOrder
    /\ CallsOf("conversations.replies") # {}
    /\ CallsOf("conversations.info") # {}

\* the three failures of handle_reaction_added the error taxonomy names
MissingFields == Ran("validate") /\ ~FieldsPresent(req.body.event)
MessageNotFound == Ran("resolve") /\ local.message = NoMessage
StoreError == Ran("submit") /\ ~StoreReturnedRecord

\* C14 (as the code has it): a request answered with a 4xx status is
\* Unauthorized (401, verification failed) or BadRequest (400, the body is
\* not JSON); MissingFields, MessageNotFound and StoreError are answered to
\* the sender with status 500, an error response and not a success.
C14_FailuresAnswered500 ==
    pc = "done" =>
        /\ (result.http \in 400..499) => result \in {Unauthorized, BadRequest}
        /\ result = Unauthorized => ~Ran("parse")
        /\ result = BadRequest => (Ran("parse") /\ ~Ran("filter"))
        /\ (MissingFields \/ MessageNotFound \/ StoreError)
              => (result.http = 500 /\ result.kind = "failed")

C14_Witness ==
    /\ pc = "done"
    /\ StoreError
    /\ local.store = "ok"
    /\ result.http = 500

\* C14 as stated: MissingFields, MessageNotFound and StoreError are answered
\* to the sender as acknowledged, with a success response.
C14_FailuresAcknowledged ==
    (pc = "done" /\ (MissingFields \/ MessageNotFound \/ StoreError))
        => result.http = 200

\* C15: a request that passes verification and whose body is not valid JSON
\* is rejected as a bad request; no handler runs and no outbound call is
\* made.
C15_InvalidJsonRejected ==
    (pc = "done" /\ Authentic(req) /\ req.body.kind = "badjson")
        => /\ result = BadRequest
           /\ calls = <<>>
           /\ stages = <<"verify", "parse">>

C15_Witness ==
    /\ pc = "done"
    /\ Authentic(req)
    /\ req.body.kind = "badjson"
    /\ result.http = 400

\* the reaction_added event of the emoji was served: fields present, the
\* message resolved with the text and the files, the record store up
Scenario(emoji, text, files) ==
    /\ Served("reaction_added")
    /\ req.body.event.reaction = emoji
    /\ FieldsPresent(req.body.event)
    /\ Resolved
    /\ local.message.text = text
    /\ local.message.files = files
    /\ local.store = "ok"

\* C16: for emoji 'papercut-big', message text 'site is down', no files and
\* an assignee mapping that contains the acting user, the field map submitted
\* to the store is exactly the text under the configured text field, Status
\* 'Intake', Pain Score 'lg' and Assignee the mapped name.
C16_PapercutBigRecord ==
    (/\ Scenario("papercut-big", "site is down", <<>>)
     /\ req.body.event.user \in DOMAIN SlackUserMapEnv)
        => \E i \in CallsOf("table.create") :
              calls[i].arg =
                 [k \in {Settings.airtable_field_name, "Status", "Pain Score", "Assignee"} |->
                    CASE k = "Status" -> "Intake"
                      [] k = "Pain Score" -> "lg"
                      [] k = "Assignee" -> SlackUserMapEnv[req.body.event.user]
                      [] OTHER -> "site is down"]

\* the fields of a submitted record other than the text, Status, Pain Score
\* and Assignee
AttachmentFields(fields) ==
    DOMAIN fields \ {Settings.airtable_field_name, "Status", "Pain Score", "Assignee"}

\* one attachment field holding a reference to every image, in file order
SingleFieldShape(fields, refs) ==
    \E k \in AttachmentFields(fields) :
       /\ AttachmentFields(fields) = {k}
       /\ Len(fields[k]) = Len(refs)
       /\ \A j \in 1..Len(refs) : fields[k][j].filename = refs[j].filename

\* three distinct attachment fields holding the first three images, one each
ThreeFieldShape(fields, refs) ==
    \E f \in [1..3 -> AttachmentFields(fields)] :
       /\ AttachmentFields(fields) = {f[j] : j \in 1..3}
       /\ \A j, k \in 1..3 : f[j] = f[k] => j = k
       /\ \A j \in 1..3 :
             Len(fields[f[j]]) = 1 /\ fields[f[j]][1].filename = refs[j].filename

\* C17: for a message with five image files the submitted record holds
\* either all five attachment references in file order in a single attachment
\* field (the multi-attachment destination) or the first three in three
\* distinct fields, the other two dropped.
C17_FiveImages ==
    (\E emoji \in DOMAIN EMOJI_DESTINATION_MAP :
        Scenario(emoji, "site is down", FiveImages))
        => \E i \in CallsOf("table.create") :
              LET refs == extract_image_attachments(local.message)
              IN /\ Len(refs) = Len(FiveImages)
                 /\ \/ SingleFieldShape(calls[i].arg, refs)
                    \/ ThreeFieldShape(calls[i].arg, refs)

\* a lookup of the kind was made for the request and did not succeed
LookupFailed(api) == \E i \in CallsOf(api) : calls[i].outcome # "ok"

\* C18: a failure of the user lookup or of the channel lookup, of any kind,
\* does not fail the dispatch: the record is built and handed to the store
\* client, and the context names the user or the channel by its raw id.
C18_LookupFailureTolerated ==
    (pc = "done" /\ Ran("enrich") /\ (LookupFailed("users.info") \/ LookupFailed("conversations.info")))
        => /\ Ran("build")
           /\ Ran("submit") \/ req.body.event.reaction = "changelog"
           /\ LookupFailed("users.info")
                 => local.context.reactor_user = <<"id", req.body.event.user>>
           /\ LookupFailed("conversations.info")
                 => local.context.channel_name = <<"id", req.body.event.channel>>

\* C19: get_assignee_name returns the mapped name when the assignee map
\* contains the acting user and no assignee, without raising, otherwise; with
\* no assignee and the store up the record is still submitted, without an
\* Assignee field.
C19_AssigneeLookup ==
    (pc = "done" /\ Ran("submit") /\ local.store = "ok")
        => LET user == req.body.event.user
           IN IF user \in DOMAIN SlackUserMapEnv
              THEN local.context.assignee_name = SlackUserMapEnv[user]
              ELSE /\ local.context.assignee_name = NoneStr
                   /\ \E i \in CallsOf("table.create") : "Assignee" \notin DOMAIN calls[i].arg

-----------------------------------------------------------------------------
(* Two deliveries of one event: handle_reaction_added runs once for each,   *)
(* and the steps of the two runs interleave in any order.  The handler and  *)
(* the clients keep no state between runs, so each delivery has its own     *)
(* locals and its own list of outbound calls.                               *)

Deliveries == 1..2

\* the event delivered twice, and the content of the message it points at
DupEvents ==
    { e \in Events : /\ e.type = "reaction_added"
                     /\ e.reaction \in {"fedex", "papercut-big"}
                     /\ e.user = "U1"
                     /\ FieldsPresent(e) }
DupContents == { c \in Contents : c.text = "site is down" /\ c.files # FiveImages }
DupArgs == [event : DupEvents, content : DupContents]

NoDelivery ==
    [pc |-> "route", calls |-> <<>>, message |-> NoMessage, context |-> NoContext,
     store |-> NoneStr, answer |-> NoResult]

InitDup ==
    /\ clock2 = 2 * Now
    /\ pageFrom \in PageEnds
    /\ chan \in DispatchChannels
    /\ Idle
    /\ pc = "called"
    /\ arg \in DupArgs
    /\ ret = [d \in Deliveries |-> NoDelivery]

DupUnchanged == UNCHANGED <<clock2, pageFrom, chan, table, req, pc, calls, result, local, stages, arg>>

\* handle_reaction_added lines 98-127 for delivery d
DupRoute(d) ==
    /\ ret[d].pc = "route"
    /\ LET me == ret[d]
           step == RouteAndValidate(arg.event)
           emoji_config == table[arg.event.reaction]
       IN ret' = [ret EXCEPT ![d] =
            CASE step = "ignored" -> [me EXCEPT !.pc = "done", !.answer = Acknowledged]
              [] step = "missing" -> [me EXCEPT !.pc = "done", !.answer = Failed]
              [] OTHER -> [me EXCEPT !.pc = "resolve",
                                     !.context.emoji_config = emoji_config,
                                     !.context.pain_score = emoji_config.pain_score]]
    /\ DupUnchanged

\* handle_reaction_added lines 129-147 for delivery d
DupResolve(d) ==
    /\ ret[d].pc = "resolve"
    /\ LET me == ret[d]
           got == get_message_info(arg.event.channel, arg.event.ts, chan, pageFrom,
                                   NoFaults, arg.content)
           message == got.ret
           seen == [me EXCEPT !.calls = me.calls \o got.calls, !.message = message]
       IN ret' = [ret EXCEPT ![d] =
            IF got.exc # NoneStr \/ message = NoMessage \/ TextMissing(message)
            THEN [seen EXCEPT !.pc = "done", !.answer = Failed]
            ELSE [seen EXCEPT !.pc = "enrich"]]
    /\ DupUnchanged

\* handle_reaction_added lines 149-171 for delivery d
DupEnrich(d) ==
    /\ ret[d].pc = "enrich"
    /\ \E u \in Outcomes, c \in Outcomes :
         LET me == ret[d]
             event == arg.event
             userCall == Call("users.info", event.user, u)
             chanCall == Call("conversations.info", event.channel, c)
         IN ret' = [ret EXCEPT ![d] =
              IF u = "Exception"
              THEN [me EXCEPT !.calls = me.calls \o <<userCall>>,
                              !.pc = "done", !.answer = Failed]
              ELSE IF c = "Exception"
              THEN [me EXCEPT !.calls = me.calls \o <<userCall, chanCall>>,
                              !.pc = "done", !.answer = Failed]
              ELSE [me EXCEPT !.calls = me.calls \o <<userCall, chanCall>>,
                              !.context.reactor_user = LookupName(event.user, u),
                              !.context.message_author = me.message.user,
                              !.context.channel_name = LookupName(event.channel, c),
                              !.context.assignee_name = get_assignee_name(event.user),
                              !.pc = "submit"]]
    /\ DupUnchanged

\* handle_reaction_added lines 173-181 for delivery d
DupSubmit(d) ==
    /\ ret[d].pc = "submit"
    /\ \E store \in StoreOutcomes :
         LET me == ret[d]
             made == create_airtable_record(me.message.text, me.message, me.context, store)
         IN ret' = [ret EXCEPT ![d] =
              [me EXCEPT !.calls = me.calls \o made.calls,
                         !.store = store,
                         !.pc = "done",
                         !.answer = IF made.ok THEN Acknowledged ELSE Failed]]
    /\ DupUnchanged

NextDup ==
    \E d \in Deliveries :
       \/ DupRoute(d)
       \/ DupResolve(d)
       \/ DupEnrich(d)
       \/ DupSubmit(d)

SpecDup == InitDup /\ [][NextDup]_vars

\* the create calls delivery d issued
CreateCallsOf(d) ==
    { i \in 1..Len(ret[d].calls) : ret[d].calls[i].api = "table.create" }

\* C20: no deduplication: when the same reaction_added event is handled
\* twice, one run after the other or interleaved, and the store accepts both
\* submissions, each run issues its own create-record call and both are
\* acknowledged.
C20_BothRecorded ==
    (\A d \in Deliveries : ret[d].pc = "done" /\ ret[d].store = "ok")
        => \A d \in Deliveries :
              /\ ret[d].answer = Acknowledged
              /\ Cardinality(CreateCallsOf(d)) = 1

-----------------------------------------------------------------------------
(* Properties of the destination table, the challenge echo, the message    *)
(* lookup, the attachment extractor and the record builder                  *)

\* C21: no dispatch modifies the destination table: in every state reached
\* by any sequence of requests its contents are those at load, and the rule
\* a request was routed to is the rule the table holds for its emoji.
C21_TableImmutable ==
    /\ table = EMOJI_DESTINATION_MAP
    /\ (Ran("validate") /\ FieldsPresent(req.body.event))
          => local.context.emoji_config = EMOJI_DESTINATION_MAP[req.body.event.reaction]

C21_Witness ==
    /\ pc = "done"
    /\ Ran("submit")
    /\ req.body.event.reaction = "papercut-immediate-in-progress"
    /\ table = EMOJI_DESTINATION_MAP

\* C22: a url_verification payload is answered with an echo of its challenge
\* value exactly when the request verifies; the echo comes after
\* verification and parsing only, with no handler run and no outbound call,
\* and no other payload is answered with an echo.
C22_ChallengeEchoed ==
    pc = "done" =>
        /\ req.body.kind = "url_verification"
              => (result.kind = "challenge" <=> Authentic(req))
        /\ result.kind = "challenge"
              => /\ req.body.kind = "url_verification"
                 /\ result = Challenge(req.body.challenge)
                 /\ stages = <<"verify", "parse">>
                 /\ calls = <<>>

C22_Witness ==
    /\ pc = "done"
    /\ req.body = ChallengeBody("c-2")
    /\ result.http = 200
    /\ result.challenge = "c-2"

\* C23: whenever get_message_info returns a message, the timestamp of that
\* message is the requested one, on the direct path and on the thread scan,
\* whatever the channel holds.
C23_ReturnedTsMatches ==
    (pc = "returned" /\ ret.exc = NoneStr /\ ret.ret # NoMessage)
        => ret.ret.ts = arg.message_ts

-----------------------------------------------------------------------------
(* extract_image_attachments called on its own *)

\* longest file list tried
MaxFiles == 3

\* the files a message may carry: an image, a document or no mimetype key;
\* url_private missing, empty or one of two URLs; name present or missing
FileMimetypes == {<<"image", "png">>, <<"application", "pdf">>, NoMimetype}
FileUrls == {NoneStr, "", "https://files/a.png", "https://files/b.png"}
FileNames == {NoneStr, "a.png"}
FileKinds == { File(m, u, n) : m \in FileMimetypes, u \in FileUrls, n \in FileNames }

InitExtract ==
    /\ clock2 = 2 * Now
    /\ pageFrom = "newest"
    /\ chan = [t \in Ts |-> 0]
    /\ Idle
    /\ pc = "called"
    /\ \E n \in 0..MaxFiles : arg \in [files : [1..n -> FileKinds]]
    /\ ret = <<>>

\* one call of extract_image_attachments on the message
ExtractCall ==
    /\ pc = "called"
    /\ ret' = extract_image_attachments(arg)
    /\ pc' = "returned"
    /\ UNCHANGED <<clock2, pageFrom, chan, table, req, calls, result, local, stages, arg>>

NextExtract == ExtractCall

SpecExtract == InitExtract /\ [][NextExtract]_vars

\* the file is an image and carries a non-empty private URL
ImageWithUrl(file) ==
    /\ file.mimetype = <<"image", "png">>
    /\ file.url_private \in {"https://files/a.png", "https://files/b.png"}

\* C24: extract_image_attachments returns one reference for each file whose
\* mime type begins with 'image/' and that has a private URL, in the order
\* of the files, a file listed twice giving two references; the URL of a
\* reference is the private URL followed by '?token=' and the bot token.
\* Files of another mime type, or with none, give nothing.
C24_OneRefPerImage ==
    pc = "returned" =>
        LET kept == SelectSeq(arg.files, ImageWithUrl)
        IN /\ Len(ret) = Len(kept)
           /\ \A j \in 1..Len(kept) :
                 ret[j].url = <<kept[j].url_private, "?token=", Settings.slack_bot_token>>

C24_Witness ==
    /\ pc = "returned"
    /\ Len(arg.files) = 3
    /\ arg.files[1] = arg.files[3]
    /\ ImageWithUrl(arg.files[1])
    /\ arg.files[2].mimetype = <<"application", "pdf">>
    /\ Len(ret) = 2

\* the file is not an image without a private URL
NotUrlless(file) ==
    ~(file.mimetype = <<"image", "png">> /\ file.url_private \in {NoneStr, ""})

\* C25: an image file without a private URL is skipped: the call returns
\* what it returns for the list without that file.  The reference of an
\* image file without a name has the filename 'screenshot.png'.
C25_MissingUrlSkipped ==
    pc = "returned" =>
        LET kept == SelectSeq(arg.files, ImageWithUrl)
        IN /\ ret = extract_image_attachments([files |-> SelectSeq(arg.files, NotUrlless)])
           /\ Len(ret) = Len(kept)
           /\ \A j \in 1..Len(kept) :
                 ret[j].filename = IF kept[j].name = NoneStr THEN "screenshot.png"
                                   ELSE kept[j].name

C25_Witness ==
    /\ pc = "returned"
    /\ Len(arg.files) = 2
    /\ arg.files[1] = File(<<"image", "png">>, NoneStr, "a.png")
    /\ arg.files[2] = File(<<"image", "png">>, "https://files/b.png", NoneStr)
    /\ Len(ret) = 1
    /\ ret[1].filename = "screenshot.png"

\* the field map create_airtable_record builds for the request
BuiltFields ==
    BuildFields(Settings.airtable_field_name, local.message.text, local.context)

\* the severity and status halves of C26
SeverityAndStatus(fields, rule) ==
    /\ "Pain Score" \in DOMAIN fields <=> rule.pain_score # NoneStr
    /\ "Pain Score" \in DOMAIN fields => fields["Pain Score"] = rule.pain_score
    /\ fields["Status"] = IF "status" \in DOMAIN rule THEN rule.status ELSE "Intake"

\* C26: in every built field map 'Pain Score' is present exactly when the
\* matched rule defines a severity, and then equals it; 'Assignee' is
\* present exactly when the assignee mapping has an entry for the actor; and
\* 'Status' is the rule's status when it has one and 'Intake' otherwise.
C26_FieldMap ==
    (pc = "done" /\ Ran("submit"))
        => LET rule == EMOJI_DESTINATION_MAP[req.body.event.reaction]
           IN /\ SeverityAndStatus(BuiltFields, rule)
              /\ "Assignee" \in DOMAIN BuiltFields
                    <=> req.body.event.user \in DOMAIN SlackUserMapEnv

-----------------------------------------------------------------------------
(* create_airtable_record called on its own, on texts of every length *)

\* longest message text tried, in characters
MaxTextLen == 104

\* a text of n characters: the character at position i is the number i
TextOf(n) == [i \in 1..n |-> i]

PreviewArgs ==
    [message_text : { TextOf(n) : n \in 0..MaxTextLen },
     emoji : DOMAIN EMOJI_DESTINATION_MAP,
     store : StoreOutcomes]

NoPreview == [site |-> NoneStr, message_preview |-> <<>>, ok |-> FALSE]

InitPreview ==
    /\ clock2 = 2 * Now
    /\ pageFrom = "newest"
    /\ chan = [t \in Ts |-> 0]
    /\ Idle
    /\ pc = "called"
    /\ arg \in PreviewArgs
    /\ ret = NoPreview

\* one call of create_airtable_record: what it returns, and the log call it
\* makes with the preview of the text
PreviewCall ==
    /\ pc = "called"
    /\ LET emoji_config == table[arg.emoji]
           context == [NoContext EXCEPT !.emoji_config = emoji_config,
                                        !.pain_score = emoji_config.pain_score]
           message == [NoMessage EXCEPT !.ts = 1]
           made == create_airtable_record(arg.message_text, message, context, arg.store)
       IN ret' = [site |-> LogSite(made),
                  message_preview |-> message_preview(arg.message_text),
                  ok |-> made.ok]
    /\ pc' = "returned"
    /\ UNCHANGED <<clock2, pageFrom, chan, table, req, calls, result, local, stages, arg>>

NextPreview == PreviewCall

SpecPreview == InitPreview /\ [][NextPreview]_vars

\* C27 (as the code has it): the preview written to the log by
\* create_airtable_record is at most 103 characters long.  A text of up to
\* 100 characters is logged whole; a longer text is logged as its first 100
\* characters followed by '...', never in full.
C27_PreviewTruncated ==
    pc = "returned" =>
        LET text == arg.message_text
            preview == ret.message_preview
        IN /\ ret.site \in {"success", "failure", "exception"}
           /\ Len(preview) <= PreviewLen + Len(Ellipsis)
           /\ Len(text) <= PreviewLen => preview = text
           /\ Len(text) > PreviewLen
                 => /\ preview = SubSeq(text, 1, PreviewLen) \o Ellipsis
                    /\ preview # text

C27_Witness ==
    /\ pc = "returned"
    /\ Len(arg.message_text) = PreviewLen + 1
    /\ Len(ret.message_preview) = PreviewLen + Len(Ellipsis)
    /\ ret.site = "exception"

\* C27 as stated: for a text of any length the logged preview is at most 100
\* characters long and is never the full text.
C27_PreviewAtMost100 ==
    pc = "returned" =>
        /\ Len(ret.message_preview) <= PreviewLen
        /\ Len(arg.message_text) > PreviewLen => ret.message_preview # arg.message_text

\* the lookup went on to the thread scan: both history calls were answered
\* and the first one held no message
ScanRan ==
    /\ pc = "returned"
    /\ Len(ret.calls) >= 2
    /\ ret.calls[2].api = "conversations.history"
    /\ ret.calls[2].outcome = "ok"

HasReplies(t) == RepliesOf(chan, t) # {}

\* the top-level messages with replies, in the order the window lists them
ThreadsOfWindow == SelectSeq(NewestFirst(TopLevel(chan)), HasReplies)

\* the scan ends at this thread: its fetch raises something that is not a
\* platform API error, or it is fetched and holds the requested message
EndsScan(t) ==
    \/ arg.f.replies[t] = "Exception"
    \/ arg.f.replies[t] = "ok" /\ arg.message_ts \in RepliesOf(chan, t) \cup {t}

ThreadsToFetch ==
    LET ends == { i \in 1..Len(ThreadsOfWindow) : EndsScan(ThreadsOfWindow[i]) }
    IN IF ends = {} THEN ThreadsOfWindow
       ELSE SubSeq(ThreadsOfWindow, 1, CHOOSE i \in ends : \A j \in ends : i <= j)

\* the thread fetches made, in order
ThreadsFetched == [i \in 1..(Len(ret.calls) - 2) |-> ret.calls[i + 2].arg]

\* C28: in the thread scan a platform API error on one thread's fetch does
\* not end the scan: the threads fetched are the windowed messages with
\* replies, in window order, up to the one that holds the requested message;
\* a message without replies is never fetched; and a reply found in a thread
\* after a failed one is returned.
C28_ScanContinues ==
    ScanRan =>
        /\ ThreadsFetched = ThreadsToFetch
        /\ \A i \in 3..Len(ret.calls) : ret.calls[i].api = "conversations.replies"
        /\ \A t \in Ts :
              (/\ RepliesOf(chan, t) # {}
               /\ arg.message_ts \in RepliesOf(chan, t)
               /\ arg.f.replies[t] = "ok"
               /\ \A u \in Ts : arg.f.replies[u] # "Exception")
                 => ret.ret = Message(chan, arg.message_ts, arg.content)

C28_Witness ==
    /\ ScanRan
    /\ Len(ThreadsFetched) = 2
    /\ ret.calls[3].outcome = "SlackApiError"
    /\ ret.calls[4].outcome = "ok"
    /\ \E t \in Ts : RepliesOf(chan, t) = {} /\ chan[t] = t
    /\ ret.ret.ts = arg.message_ts

\* the three configuration keys the rule of an emoji names
ConfigKeysOf(emoji) ==
    {table[emoji].base_id_key, table[emoji].table_name_key, table[emoji].field_name_key}

\* C29: for every emoji key of the destination table the base, table and
\* field configuration keys of its rule are defined in the settings, so the
\* build stage of a dispatch of any routable emoji obtains the three values
\* and goes on to the submission instead of failing on the lookup.
C29_ConfigKeysDefined ==
    (pc = "done" /\ Ran("build"))
        => /\ \A key \in ConfigKeysOf(req.body.event.reaction) : HasAttr(Settings, key)
           /\ Ran("submit")

-----------------------------------------------------------------------------
(* Socket Mode: the framework delivers each event of the connection to the  *)
(* callback registered for its type, one after the other.  arg is the       *)
(* stream of events the connection will deliver; ret.at is the position of  *)
(* the next one, ret.invoked the handler calls made, ret.log the lines the  *)
(* callbacks wrote, and ret.escaped an exception that left a callback.      *)

MaxSocketEvents == 3

SocketReactions == {"fedex", "thumbsup", NoneStr}

\* event["item"]: a mapping, JSON null, or no such key
SocketItems == {"dict", "null", "missing"}

\* an event of the connection; handled is what handle_reaction_added
\* returns for it (True or False: it catches every Exception itself)
SocketEvents ==
    { ev \in [type : EventTypes, reaction : SocketReactions, item : SocketItems,
              handled : BOOLEAN] :
        /\ ev.type # "reaction_removed" => ev.item = "dict"
        /\ ev.type # "reaction_added" => ev.handled
        /\ ev.type = "message" => ev.reaction = NoneStr
        /\ ev.reaction \notin DOMAIN EMOJI_DESTINATION_MAP => ev.item = "dict" /\ ev.handled }

SocketStreams == UNION { [1..n -> SocketEvents] : n \in 0..MaxSocketEvents }

\* handle_reaction_removed(event) on an event that carries its item: True,
\* or the AttributeError of event.get("item", {}).get("channel") when the
\* item is null
handle_reaction_removed_outcome(event) ==
    IF event.item = "null" THEN [raised |-> "AttributeError", value |-> FALSE]
    ELSE [raised |-> NoneStr, value |-> TRUE]

LogLine(at, line) == [at |-> at, line |-> line]
Invocation(at, handler) == [at |-> at, handler |-> handler]

NoSocketRun == [at |-> 1, invoked |-> <<>>, log |-> <<>>, escaped |-> NoneStr]

InitSocket ==
    /\ clock2 = 2 * Now
    /\ pageFrom = "newest"
    /\ chan = [t \in Ts |-> 0]
    /\ Idle
    /\ pc = "receiving"
    /\ arg \in SocketStreams
    /\ ret = NoSocketRun

\* the connection has an event to deliver; an exception that left a callback
\* is the framework's to deal with, and the run is not followed further
Delivering(type) ==
    /\ pc = "receiving"
    /\ ret.escaped = NoneStr
    /\ ret.at <= Len(arg)
    /\ arg[ret.at].type = type

SocketUnchanged == UNCHANGED <<clock2, pageFrom, chan, table, req, pc, calls, result, local, stages, arg>>

\* reaction_added_handler(event, say)
reaction_added_handler ==
    /\ Delivering("reaction_added")
    /\ LET event == arg[ret.at]
           reaction == event.reaction
           received == <<LogLine(ret.at, "Received reaction")>>
       IN ret' =
            IF reaction \in DOMAIN table
            THEN [ret EXCEPT
                    !.at = @ + 1,
                    !.invoked = @ \o <<Invocation(ret.at, "handle_reaction_added")>>,
                    !.log = @ \o received \o <<LogLine(ret.at, "Processing reaction")>>
                              \o <<LogLine(ret.at,
                                     IF event.handled
                                     THEN "Successfully processed reaction_added event"
                                     ELSE "Failed to process reaction_added event")>>]
            ELSE [ret EXCEPT !.at = @ + 1, !.log = @ \o received]
    /\ SocketUnchanged

reaction_removed_handler_no_try ==
    /\ Delivering("reaction_removed")
    /\ LET event == arg[ret.at]
           received == <<LogLine(ret.at, "Received reaction_removed event")>>
           success == handle_reaction_removed_outcome(event)
       IN ret' =
            IF event.reaction \in DOMAIN table
            THEN [ret EXCEPT
                    !.at = @ + 1,
                    !.invoked = @ \o <<Invocation(ret.at, "handle_reaction_removed")>>,
                    !.escaped = success.raised,
                    !.log = @ \o received \o
                              (IF success.raised # NoneStr THEN <<>>
                               ELSE <<LogLine(ret.at,
                                        "Successfully processed reaction_removed event")>>)]
            ELSE [ret EXCEPT !.at = @ + 1, !.log = @ \o received]
    /\ SocketUnchanged

\* reaction_removed_handler(event, say)
reaction_removed_handler ==
    /\ Delivering("reaction_removed")
    /\ LET event == arg[ret.at]
           received == <<LogLine(ret.at, "Received reaction_removed event")>>
           success == handle_reaction_removed_outcome(event)
       IN ret' =
            IF event.reaction \in DOMAIN table
            THEN [ret EXCEPT
                    !.at = @ + 1,
                    !.invoked = @ \o <<Invocation(ret.at, "handle_reaction_removed")>>,
                    !.log = @ \o received \o
                              <<LogLine(ret.at,
                                  IF success.raised # NoneStr
                                  THEN "Error processing reaction_removed"
                                  ELSE IF success.value
                                  THEN "Successfully processed reaction_removed event"
                                  ELSE "Failed to process reaction_removed event")>>]
            ELSE [ret EXCEPT !.at = @ + 1, !.log = @ \o received]
    /\ SocketUnchanged

\* an event of a type no callback is registered for
NoListener ==
    /\ Delivering("message")
    /\ ret' = [ret EXCEPT !.at = @ + 1]
    /\ SocketUnchanged

NextSocket ==
    \/ reaction_added_handler
    \/ reaction_removed_handler
    \/ NoListener

SpecSocket == InitSocket /\ [][NextSocket]_vars

\* the events delivered so far
Delivered == 1..(ret.at - 1)

HandlerFor(type) ==
    IF type = "reaction_added" THEN "handle_reaction_added" ELSE "handle_reaction_removed"

HandlerRaised(i) ==
    /\ arg[i].type = "reaction_removed"
    /\ arg[i].reaction \in DOMAIN table
    /\ handle_reaction_removed_outcome(arg[i]).raised # NoneStr

\* C30: in Socket Mode a callback calls its handler only for an event whose
\* emoji is a key of the destination table; an exception the handler raises
\* is caught and logged inside the callback, none leaves it; and every event
\* delivered after a failed one still gets its callback and, for a table
\* emoji, its handler call.
C30_SocketCallbacks ==
    /\ \A k \in 1..Len(ret.invoked) :
          LET event == arg[ret.invoked[k].at]
          IN /\ event.reaction \in DOMAIN table
             /\ event.type \in {"reaction_added", "reaction_removed"}
             /\ ret.invoked[k].handler = HandlerFor(event.type)
    /\ ret.escaped = NoneStr
    /\ \A i \in Delivered :
          /\ HandlerRaised(i) =>
                \E k \in 1..Len(ret.log) :
                    ret.log[k] = LogLine(i, "Error processing reaction_removed")
          /\ arg[i].type # "message" =>
                \E k \in 1..Len(ret.log) : ret.log[k].at = i
          /\ (arg[i].type # "message" /\ arg[i].reaction \in DOMAIN table) =>
                \E k \in 1..Len(ret.invoked) : ret.invoked[k].at = i
    /\ (ret.at <= Len(arg)) => ENABLED NextSocket

C30_Witness ==
    /\ ret.at = 4
    /\ HandlerRaised(1)
    /\ arg[2].type = "reaction_added" /\ arg[2].reaction = "thumbsup"
    /\ arg[3].type = "reaction_added" /\ arg[3].reaction = "fedex"
    /\ ret.invoked = <<Invocation(1, "handle_reaction_removed"),
                       Invocation(3, "handle_reaction_added")>>

====
